---- MODULE Spec2Model ----
(***************************************************************************)
(* Near-image duplicate detection: the two-stage "sieve then verify"       *)
(* funnel (src/src/pipeline.py), the dHash sieve (src/src/sieves.py), the  *)
(* FAISS-backed Indexer (src/src/indexer.py) and VectorStore               *)
(* (src/src/search.py) with the files they persist to.                     *)
(*                                                                         *)
(* Representation                                                          *)
(*  - a fingerprint is the hex string compute_dhash returns: a sequence of *)
(*    HexLen hex digits (values 0..15);                                    *)
(*  - an embedding is a unit vector scaled by 10 and written by its two    *)
(*    leading components (all other components are 0), so an inner product *)
(*    is a similarity in hundredths: <<10,0>> . <<8,6>> = 80 is 0.80;      *)
(*  - None is the empty tuple, a present value v is <<v>>.                 *)
(***************************************************************************)
EXTENDS Integers, Sequences, FiniteSets, TLC

VARIABLES
    hash_db,        \* DuplicateDetector.hash_db: dict hash -> path, in insertion order
    index,          \* Indexer.index: the vectors held by the FAISS index, by slot
    metadata,       \* Indexer.metadata: the filename of every slot
    verifier,       \* DuplicateDetector.verifier: which embedding provider is installed
    pc,             \* position of the detect call in flight
    call,           \* its arguments [image_path, top_k]
    verdict,        \* the dictionary detect returned (None while running)
    path_taken,     \* history: the funnel states the call went through
    invoked,        \* history: the collaborators the call invoked
    index_file,     \* disk: the artifact at Indexer.index_path
    metadata_file,  \* disk: the artifact at Indexer.metadata_path
    proc,           \* position of the process that owns the Indexer
    last,           \* history: the last Indexer / VectorStore operation and its outcome
    vs,             \* VectorStore: [index, metadata, loaded, pc]
    vs_index_file,  \* disk: the artifact at VectorStore.index_path
    vs_metadata_file \* disk: the artifact at VectorStore.metadata_path

vars == <<hash_db, index, metadata, verifier, pc, call, verdict, path_taken,
          invoked, index_file, metadata_file, proc, last,
          vs, vs_index_file, vs_metadata_file>>

funnelVars == <<hash_db, verifier, pc, call, verdict, path_taken, invoked>>
indexerVars == <<index, metadata>>
diskVars == <<index_file, metadata_file>>
storeVars == <<vs, vs_index_file, vs_metadata_file>>

----------------------------------------------------------------------------
(* Configuration: src/src/config.py and the defaults of the signatures.    *)

HASH_HAMMING_THRESHOLD == 5
SSCD_SIM_THRESHOLD == 65
TOP_K == 3
OVERFETCH == 5
hash_size == 8
dimension == 512

HexLen == (hash_size * hash_size) \div 4

(* Bounds of the model. *)
MaxIndex == 2
MaxBatch == 2

None == <<>>
Some(v) == <<v>>

Min(a, b) == IF a <= b THEN a ELSE b

----------------------------------------------------------------------------
(* The image files of the model and what the external collaborators        *)
(* (PIL, imagehash, the SSCD network) compute from them.                   *)

(* the reference collection: the folder build_hash_db scans *)
FolderPaths == {"A", "B", "C", "D", "X"}
(* the paths build_index embeds and adds to the Indexer *)
IndexPaths == {"A", "B", "C"}
(* the paths detect is called with: indexed items, a link to one, uploads *)
QueryPaths == {"A", "B", "A_link", "Q1", "Q2", "Q3", "X"}

(* Path(p).resolve(): "A_link" is a symbolic link to "A". *)
Resolve(p) == IF p = "A_link" THEN "A" ELSE p

(* Image.open(p).convert("RGB") succeeds: "X" is not a decodable image. *)
Readable(p) == Resolve(p) # "X"

(* A hex string that is 0 except for its last two digits. *)
Hex(hi, lo) == [i \in 1..HexLen |-> IF i = HexLen - 1 THEN hi
                                     ELSE IF i = HexLen THEN lo ELSE 0]

(* compute_dhash of the image stored in a file: "C" collides with "A". *)
FileHash(f) ==
    CASE f = "A" -> Hex(0, 0)
      [] f = "B" -> Hex(0, 7)
      [] f = "C" -> Hex(0, 0)
      [] f = "D" -> Hex(0, 15)
      [] f = "Q1" -> Hex(0, 3)
      [] f = "Q2" -> Hex(1, 8)
      [] OTHER -> [i \in 1..HexLen |-> 15]

compute_dhash(p) == FileHash(Resolve(p))

(* The normalized SSCD embedding of the image stored in a file. *)
FileEmbedding(f) ==
    CASE f = "A" -> <<10, 0>>
      [] f = "B" -> <<8, 6>>
      [] f = "C" -> <<0, 10>>
      [] f = "D" -> <<6, 8>>
      [] f = "Q1" -> <<8, 6>>
      [] f = "Q2" -> <<10, 0>>
      [] OTHER -> <<6, 8>>

(* The shape of the array get_embedding returns.  SSCDVerifier flattens    *)
(* the model output to one axis; "RowVerifier" is an injected provider     *)
(* returning the batch of one row that Indexer.search documents.           *)
Verifiers == {"SSCDVerifier", "RowVerifier"}

get_embedding(v, p) ==
    [shape |-> IF v = "SSCDVerifier" THEN <<dimension>> ELSE <<1, dimension>>,
     data |-> FileEmbedding(Resolve(p))]

----------------------------------------------------------------------------
(* src/src/sieves.py *)

Bit(d, i) == (d \div (2 ^ i)) % 2

(* a comparison of hex characters instead of bits *)
DigitDiff_Mut(a, b) == IF a # b THEN 1 ELSE 0

(* Number of differing bits of two hex digits. *)
DigitDiff(a, b) ==
    LET D(i) == IF Bit(a, i) # Bit(b, i) THEN 1 ELSE 0
    IN D(0) + D(1) + D(2) + D(3)

RECURSIVE HammingFrom(_, _, _)
HammingFrom(h1, h2, i) ==
    IF i > Len(h1) THEN 0
    ELSE DigitDiff(h1[i], h2[i]) + HammingFrom(h1, h2, i + 1)

(* only the bits set in h1 and clear in h2 are counted *)
RECURSIVE OneSidedFrom(_, _, _)
OneSidedFrom(h1, h2, i) ==
    IF i > Len(h1) THEN 0
    ELSE LET D(n) == IF Bit(h1[i], n) = 1 /\ Bit(h2[i], n) = 0 THEN 1 ELSE 0
         IN D(0) + D(1) + D(2) + D(3) + OneSidedFrom(h1, h2, i + 1)

hamming_distance_Mut(h1, h2) == OneSidedFrom(h1, h2, 1)

(* hamming_distance: hex_to_hash both strings and count differing bits. *)
hamming_distance(h1, h2) == HammingFrom(h1, h2, 1)

----------------------------------------------------------------------------
(* src/src/pipeline.py: the hash table *)

(* position of a key in the dict, 0 when absent *)
KeyPos(db, h) ==
    IF \E i \in 1..Len(db) : db[i].hash = h
    THEN CHOOSE i \in 1..Len(db) : db[i].hash = h
    ELSE 0

(* hash_db[dhash] = path: a dict assignment; an existing key keeps its     *)
(* place and gets the new value.                                           *)
DictSet(db, h, p) ==
    IF KeyPos(db, h) = 0
    THEN Append(db, [hash |-> h, filename |-> p])
    ELSE [db EXCEPT ![KeyPos(db, h)].filename = p]

(* build_hash_db: scan the folder in listing order, skip what cannot be    *)
(* opened.                                                                  *)
RECURSIVE ScanFolder(_, _, _)
ScanFolder(db, listing, i) ==
    IF i > Len(listing) THEN db
    ELSE ScanFolder(IF Readable(listing[i])
                    THEN DictSet(db, compute_dhash(listing[i]), listing[i])
                    ELSE db,
                    listing, i + 1)

build_hash_db(listing) == ScanFolder(<<>>, listing, 1)

(* every order in which iterdir can list a folder *)
Listings(S) == {s \in [1..Cardinality(S) -> S] :
                    \A i, j \in 1..Cardinality(S) : i # j => s[i] # s[j]}

----------------------------------------------------------------------------
(* src/src/pipeline.py: DuplicateDetector.sieve *)

(* a comparison of the path strings as given, without resolve() *)
IsSelf_Mut(img_path, query_path) == img_path = query_path

(* the self-match test of sieve (line 66) and of verify (line 88) *)
IsSelf(img_path, query_path) == Resolve(img_path) = Resolve(query_path)

(* an exclusive threshold *)
WithinHamming_Mut(dist) == dist < HASH_HAMMING_THRESHOLD

(* line 70: the threshold is inclusive *)
WithinHamming(dist) == dist <= HASH_HAMMING_THRESHOLD

(* the loop of lines 64-71 *)
RECURSIVE SieveScan(_, _, _, _)
SieveScan(db, q_hash, query_path, i) ==
    IF i > Len(db) THEN <<>>
    ELSE LET dist == hamming_distance(q_hash, db[i].hash)
             rest == SieveScan(db, q_hash, query_path, i + 1)
         IN IF IsSelf(db[i].filename, query_path) THEN rest
            ELSE IF WithinHamming(dist)
                 THEN <<[filename |-> db[i].filename, distance |-> dist]>> \o rest
                 ELSE rest

(* matches left in scan order *)
InsertSorted_Mut(sorted, m) == Append(sorted, m)

(* list.sort(key=distance): a stable sort *)
RECURSIVE InsertSorted(_, _)
InsertSorted(sorted, m) ==
    IF sorted = <<>> THEN <<m>>
    ELSE IF Head(sorted).distance <= m.distance
         THEN <<Head(sorted)>> \o InsertSorted(Tail(sorted), m)
         ELSE <<m>> \o sorted

RECURSIVE SortByDistance(_, _)
SortByDistance(matches, n) ==
    IF n = 0 THEN <<>>
    ELSE InsertSorted(SortByDistance(matches, n - 1), matches[n])

Truncate(s, n) == SubSeq(s, 1, Min(n, Len(s)))

sieve(db, query_path, max_matches) ==
    LET matches == SieveScan(db, compute_dhash(query_path), query_path, 1)
    IN Truncate(SortByDistance(matches, Len(matches)), max_matches)

----------------------------------------------------------------------------
(* src/src/indexer.py: Indexer *)

(* IndexFlatIP: the inner product of two stored / query vectors *)
InnerProduct(u, v) == u[1] * v[1] + u[2] * v[2]

(* faiss unpacks "n, d = x.shape" and requires d == index.d *)
ShapeOk(q) == Len(q.shape) = 2 /\ q.shape[2] = dimension

(* the first slots in storage order, whatever their scores *)
TopK_Mut(idx, q, k) == {[i \in 1..Min(k, Len(idx)) |-> i]}

(* The slot sequences index.search may return for k: as many as there are  *)
(* vectors (at most k), by descending score.  FAISS leaves the order of    *)
(* equal scores to its heap, so every order of a tie is an outcome.        *)
TopK(idx, q, k) ==
    LET n == Len(idx)
        m == Min(k, n)
        score(i) == InnerProduct(q.data, idx[i])
    IN {s \in [1..m -> 1..n] :
            /\ \A i, j \in 1..m : i # j => s[i] # s[j]
            /\ \A i, j \in 1..m : i < j => score(s[i]) >= score(s[j])
            /\ \A j \in 1..n : (\A i \in 1..m : s[i] # j)
                                  => \A i \in 1..m : score(s[i]) >= score(j)}

Raised == [raised |-> TRUE, results |-> <<>>]
Returned(r) == [raised |-> FALSE, results |-> r]

(* the distance FAISS reports in a slot it could not fill *)
NegInf == 0 - 1000

(* index.search, line 61: the labels I[0] (0-based slot ids) and scores    *)
(* D[0] of one query, always k long, padded with label -1 when the index   *)
(* holds fewer than k vectors.                                              *)
FaissSearch(idx, q, k) ==
    {[I |-> [i \in 1..k |-> IF i <= Len(s) THEN s[i] - 1 ELSE 0 - 1],
      D |-> [i \in 1..k |-> IF i <= Len(s) THEN InnerProduct(q.data, idx[s[i]])
                                            ELSE NegInf]]
     : s \in TopK(idx, q, k)}

(* every label is reported *)
IsMatch_Mut(idx) == TRUE

(* line 66: -1 means no match found *)
IsMatch(idx) == idx # 0 - 1

(* self.metadata[idx] on a Python list: a negative idx counts from the end *)
InRange(meta, idx) == 0 - Len(meta) <= idx /\ idx < Len(meta)
ListItem(meta, idx) ==
    IF idx >= 0 THEN meta[idx + 1] ELSE meta[Len(meta) + idx + 1]

(* the loop of lines 63-71 over zip(D[0], I[0]), from position i on *)
RECURSIVE CollectResults(_, _, _)
CollectResults(meta, r, i) ==
    IF i > Len(r.I) THEN Returned(<<>>)
    ELSE LET rest == CollectResults(meta, r, i + 1)
         IN IF ~IsMatch(r.I[i]) THEN rest
            ELSE IF ~InRange(meta, r.I[i]) \/ rest.raised THEN Raised
                 ELSE Returned(<<[filename |-> ListItem(meta, r.I[i]),
                                  score |-> r.D[i],
                                  id |-> r.I[i]]>> \o rest.results)

(* Indexer.search: every outcome of one call *)
SearchOutcomes(idx, meta, q, k) ==
    IF ~ShapeOk(q) THEN {Raised}
    ELSE {CollectResults(meta, r, 1) : r \in FaissSearch(idx, q, k)}

----------------------------------------------------------------------------
(* src/src/pipeline.py: DuplicateDetector.verify and detect *)

RECURSIVE DropSelf(_, _)
DropSelf(results, query_path) ==
    IF results = <<>> THEN <<>>
    ELSE IF IsSelf(Head(results).filename, query_path)
         THEN DropSelf(Tail(results), query_path)
         ELSE <<Head(results)>> \o DropSelf(Tail(results), query_path)

(* the number of neighbours verify asks the index for (line 85) *)
FetchCount(top_k) == top_k + OVERFETCH

(* verify: every outcome of one call *)
VerifyOutcomes(v, idx, meta, image_path, top_k) ==
    {IF o.raised THEN Raised
     ELSE Returned(Truncate(DropSelf(o.results, image_path), top_k))
     : o \in SearchOutcomes(idx, meta, get_embedding(v, image_path),
                            FetchCount(top_k))}

(* a short-circuit that needs more than one sieve match *)
SieveWins_Mut(sieve_matches) == Len(sieve_matches) > 1

(* line 99: "if sieve_matches:" *)
SieveWins(sieve_matches) == sieve_matches # <<>>

(* line 113: the similarity threshold test *)
MeetsThreshold(score) == score >= SSCD_SIM_THRESHOLD

RECURSIVE KeepValid(_)
KeepValid(matches) ==
    IF matches = <<>> THEN <<>>
    ELSE IF MeetsThreshold(Head(matches).score)
         THEN <<Head(matches)>> \o KeepValid(Tail(matches))
         ELSE KeepValid(Tail(matches))

(* lines 100-108 *)
SieveVerdict(sieve_matches) ==
    [is_duplicate |-> TRUE,
     stage |-> "sieve",
     match |-> Some(sieve_matches[1].filename),
     score |-> Some(sieve_matches[1].distance),
     sieve_matches |-> sieve_matches,
     verifier_matches |-> <<>>]

(* the verdict lists every neighbour, below the threshold or not *)
VerifierVerdict_Mut(sieve_matches, verifier_matches) ==
    LET valid_matches == KeepValid(verifier_matches)
    IN [is_duplicate |-> valid_matches # <<>>,
        stage |-> IF valid_matches # <<>> THEN "verifier" ELSE "unique",
        match |-> IF valid_matches # <<>>
                  THEN Some(valid_matches[1].filename) ELSE None,
        score |-> IF valid_matches # <<>>
                  THEN Some(valid_matches[1].score) ELSE None,
        sieve_matches |-> sieve_matches,
        verifier_matches |-> verifier_matches]

(* lines 113-124 *)
VerifierVerdict(sieve_matches, verifier_matches) ==
    LET valid_matches == KeepValid(verifier_matches)
    IN [is_duplicate |-> valid_matches # <<>>,
        stage |-> IF valid_matches # <<>> THEN "verifier" ELSE "unique",
        match |-> IF valid_matches # <<>>
                  THEN Some(valid_matches[1].filename) ELSE None,
        score |-> IF valid_matches # <<>>
                  THEN Some(valid_matches[1].score) ELSE None,
        sieve_matches |-> sieve_matches,
        verifier_matches |-> valid_matches]

----------------------------------------------------------------------------
(* Files on disk *)

(* A file is absent, partially written (opened for writing and not yet    *)
(* complete: unreadable) or holds a content.  twin is history: what the   *)
(* other artifact of the same save() holds.                               *)
Absent == [state |-> "absent", content |-> <<>>, twin |-> <<>>]
Partial == [state |-> "partial", content |-> <<>>, twin |-> <<>>]
Written(c, t) == [state |-> "ok", content |-> c, twin |-> t]

(* os.path.exists *)
Exists(f) == f.state # "absent"

NoCall == [image_path |-> "", top_k |-> 0]
NoOp == [op |-> "none", raised |-> FALSE]
Op(name, r) == [op |-> name, raised |-> r]
NewStore == [index |-> None, metadata |-> <<>>, loaded |-> FALSE, pc |-> "ready"]

Init ==
    /\ hash_db = <<>>
    /\ index = <<>>
    /\ metadata = <<>>
    /\ verifier \in Verifiers
    /\ pc = "idle"
    /\ call = NoCall
    /\ verdict = None
    /\ path_taken = <<>>
    /\ invoked = {}
    /\ index_file = Absent
    /\ metadata_file = Absent
    /\ proc = "running"
    /\ last = NoOp
    /\ vs = NewStore
    /\ vs_index_file = Absent
    /\ vs_metadata_file = Absent

(* The Indexer (src/src/build_index.py, pipeline.py) and the VectorStore   *)
(* (build_index.py) belong to two different programs over different       *)
(* files: a run exercises one of them.                                     *)
StoreUntouched ==
    vs = NewStore /\ vs_index_file = Absent /\ vs_metadata_file = Absent

IndexerUntouched ==
    /\ index = <<>> /\ metadata = <<>>
    /\ index_file = Absent /\ metadata_file = Absent
    /\ proc = "running" /\ pc = "idle" /\ hash_db = <<>>
    /\ last.op \in {"none", "build_index", "restart", "load_index"}

----------------------------------------------------------------------------
(* Building the two indexes *)

(* app.init_detector: hash_db = build_hash_db(IMAGE_DIR), handed to the    *)
(* DuplicateDetector.                                                       *)
BuildHashDb(listing) ==
    /\ pc = "idle"
    /\ hash_db' = build_hash_db(listing)
    /\ UNCHANGED <<verifier, pc, call, verdict, path_taken, invoked>>
    /\ UNCHANGED <<indexerVars, diskVars, proc, last, storeVars>>

(* the batch is appended before the counts are compared *)
AddVectors_Mut(vectors, filenames) ==
    /\ pc = "idle"
    /\ proc = "running"
    /\ StoreUntouched
    /\ Len(index) + Len(vectors) <= MaxIndex
    /\ Len(metadata) + Len(filenames) <= MaxIndex
    /\ index' = index \o vectors
    /\ metadata' = metadata \o filenames
    /\ last' = Op("add_vectors", Len(vectors) # Len(filenames))
    /\ UNCHANGED <<funnelVars, diskVars, proc, storeVars>>

(* Indexer.add_vectors *)
AddVectors(vectors, filenames) ==
    /\ pc = "idle"
    /\ proc = "running"
    /\ StoreUntouched
    /\ Len(index) + Len(vectors) <= MaxIndex
    /\ Len(metadata) + Len(filenames) <= MaxIndex
    /\ IF Len(vectors) # Len(filenames)
       THEN /\ last' = Op("add_vectors", TRUE)
            /\ UNCHANGED indexerVars
       ELSE /\ index' = index \o vectors
            /\ metadata' = metadata \o filenames
            /\ last' = Op("add_vectors", FALSE)
    /\ UNCHANGED <<funnelVars, diskVars, proc, storeVars>>

(* the embeddings build_index computes for a list of paths *)
Embeddings(ps) == [i \in 1..Len(ps) |-> FileEmbedding(Resolve(ps[i]))]

SeqsUpTo(S, n) == UNION {[1..m -> S] : m \in 1..n}

----------------------------------------------------------------------------
(* DuplicateDetector.detect, one step per funnel state *)

DetectStart(image_path, top_k) ==
    /\ pc = "idle"
    /\ pc' = "Start"
    /\ call' = [image_path |-> image_path, top_k |-> top_k]
    /\ verdict' = None
    /\ path_taken' = <<"Start">>
    /\ invoked' = {}
    /\ UNCHANGED <<hash_db, verifier>>
    /\ UNCHANGED <<indexerVars, diskVars, proc, last, storeVars>>

(* line 96: Image.open(image_path).convert("RGB") *)
DetectOpen ==
    /\ pc = "Start"
    /\ IF Readable(call.image_path)
       THEN /\ pc' = "SieveCheck"
            /\ path_taken' = Append(path_taken, "SieveCheck")
       ELSE /\ pc' = "raised"
            /\ path_taken' = Append(path_taken, "Raised")
    /\ UNCHANGED <<hash_db, verifier, call, verdict, invoked>>
    /\ UNCHANGED <<indexerVars, diskVars, proc, last, storeVars>>

(* the sieve stage also records the query in the hash table *)
DetectSieve_Mut ==
    /\ pc = "SieveCheck"
    /\ invoked' = invoked \cup {"sieve"}
    /\ hash_db' = DictSet(hash_db, compute_dhash(call.image_path), call.image_path)
    /\ LET sieve_matches == sieve(hash_db, call.image_path, call.top_k)
       IN IF SieveWins(sieve_matches)
          THEN /\ verdict' = Some(SieveVerdict(sieve_matches))
               /\ pc' = "done"
               /\ path_taken' = Append(path_taken, "Duplicate(sieve)")
          ELSE /\ verdict' = None
               /\ pc' = "VerifierCheck"
               /\ path_taken' = Append(path_taken, "VerifierCheck")
    /\ UNCHANGED <<verifier, call>>
    /\ UNCHANGED <<indexerVars, diskVars, proc, last, storeVars>>

(* lines 98-108 *)
DetectSieve ==
    /\ pc = "SieveCheck"
    /\ invoked' = invoked \cup {"sieve"}
    /\ LET sieve_matches == sieve(hash_db, call.image_path, call.top_k)
       IN IF SieveWins(sieve_matches)
          THEN /\ verdict' = Some(SieveVerdict(sieve_matches))
               /\ pc' = "done"
               /\ path_taken' = Append(path_taken, "Duplicate(sieve)")
          ELSE /\ verdict' = None
               /\ pc' = "VerifierCheck"
               /\ path_taken' = Append(path_taken, "VerifierCheck")
    /\ UNCHANGED <<hash_db, verifier, call>>
    /\ UNCHANGED <<indexerVars, diskVars, proc, last, storeVars>>

(* lines 110-124; the sieve found nothing, so sieve_matches is [] *)
DetectVerify ==
    /\ pc = "VerifierCheck"
    /\ invoked' = invoked \cup {"get_embedding", "search"}
    /\ \E o \in VerifyOutcomes(verifier, index, metadata,
                               call.image_path, call.top_k) :
          IF o.raised
          THEN /\ verdict' = None
               /\ pc' = "raised"
               /\ path_taken' = Append(path_taken, "Raised")
          ELSE LET v == VerifierVerdict(<<>>, o.results)
               IN /\ verdict' = Some(v)
                  /\ pc' = "done"
                  /\ path_taken' = Append(path_taken,
                        IF v.stage = "verifier" THEN "Duplicate(verifier)"
                                                ELSE "Unique")
    /\ UNCHANGED <<hash_db, verifier, call>>
    /\ UNCHANGED <<indexerVars, diskVars, proc, last, storeVars>>

(* the call has returned or raised; the detector serves the next request *)
DetectReturn ==
    /\ pc \in {"done", "raised"}
    /\ pc' = "idle"
    /\ call' = NoCall
    /\ verdict' = None
    /\ path_taken' = <<>>
    /\ invoked' = {}
    /\ UNCHANGED <<hash_db, verifier>>
    /\ UNCHANGED <<indexerVars, diskVars, proc, last, storeVars>>

TopKs == {1, TOP_K}

Next ==
    \/ \E S \in SUBSET FolderPaths : \E listing \in Listings(S) :
          BuildHashDb(listing)
    \/ \E ps \in SeqsUpTo(IndexPaths, MaxBatch) : \E drop \in {0, 1} :
          AddVectors(SubSeq(Embeddings(ps), 1, Len(ps) - drop), ps)
    \/ \E p \in QueryPaths : \E k \in TopKs : DetectStart(p, k)
    \/ DetectOpen
    \/ DetectSieve
    \/ DetectVerify
    \/ DetectReturn

Spec == Init /\ [][Next]_vars

----------------------------------------------------------------------------
(* Reference notions the properties are stated with, defined independently *)
(* of the operators above.                                                 *)

(* the bit positions in which two fingerprints differ *)
DifferingBits(h1, h2) ==
    {pos \in (1..Len(h1)) \X (0..3) :
        Bit(h1[pos[1]], pos[2]) # Bit(h2[pos[1]], pos[2])}

HammingRef(h1, h2) == Cardinality(DifferingBits(h1, h2))

(* two identifiers name the same file *)
SameFile(p, q) == Resolve(p) = Resolve(q)

(* the fingerprint of the image a path leads to *)
HashOf(p) == FileHash(Resolve(p))

Returning == pc = "done" /\ verdict # None
Finished == pc \in {"done", "raised"}
TheVerdict == verdict[1]
QueryPath == call.image_path

(* the hash-table entries the sieve may report for the query *)
SieveCandidates ==
    {i \in 1..Len(hash_db) :
        /\ ~SameFile(hash_db[i].filename, QueryPath)
        /\ HammingRef(HashOf(QueryPath), hash_db[i].hash) <= HASH_HAMMING_THRESHOLD}

(* the slots of the vector index that are not the query's own item *)
OtherSlots ==
    {i \in 1..Len(metadata) : ~SameFile(metadata[i], QueryPath)}

SlotScore(i) ==
    index[i][1] * FileEmbedding(Resolve(QueryPath))[1]
        + index[i][2] * FileEmbedding(Resolve(QueryPath))[2]

UniqueVerdict ==
    [is_duplicate |-> FALSE, stage |-> "unique", match |-> None,
     score |-> None, sieve_matches |-> <<>>, verifier_matches |-> <<>>]

----------------------------------------------------------------------------
(* Properties of the funnel *)

\* C1: in detect, when the sieve returns at least one match the verifier
\* stage (get_embedding and Indexer.search) is not invoked during that call
\* and the verdict has stage "sieve" and is_duplicate true; the verifier is
\* invoked only after the sieve has run and returned an empty list.
C1_SieveShortCircuit ==
    /\ (pc \in {"VerifierCheck", "done", "raised"} /\ Readable(QueryPath)
            /\ SieveCandidates # {})
          => /\ invoked \cap {"get_embedding", "search"} = {}
             /\ pc = "done"
             /\ verdict # None
             /\ TheVerdict.stage = "sieve"
             /\ TheVerdict.is_duplicate
    /\ (invoked \cap {"get_embedding", "search"} # {})
          => "sieve" \in invoked /\ SieveCandidates = {}

C1_Witness ==
    /\ Returning
    /\ TheVerdict.stage = "sieve"
    /\ OtherSlots # {}
    /\ invoked = {"sieve"}

\* C2: when the query's own path is present in the hash table and in the
\* vector index, detect never returns that path, nor any identifier that
\* resolves to the same file, as match, in sieve_matches or in
\* verifier_matches.
C2_NoSelfMatch ==
    Returning =>
        /\ \A i \in 1..Len(TheVerdict.sieve_matches) :
              ~SameFile(TheVerdict.sieve_matches[i].filename, QueryPath)
        /\ \A i \in 1..Len(TheVerdict.verifier_matches) :
              ~SameFile(TheVerdict.verifier_matches[i].filename, QueryPath)
        /\ TheVerdict.match # None
              => ~SameFile(TheVerdict.match[1], QueryPath)

C2_Witness ==
    /\ Returning
    /\ TheVerdict.stage = "verifier"
    /\ \E i \in 1..Len(hash_db) :
          /\ SameFile(hash_db[i].filename, QueryPath)
          /\ hash_db[i].filename # QueryPath
    /\ \E i \in 1..Len(metadata) : SameFile(metadata[i], QueryPath)

\* C3: when the sieve returns nothing, detect returns Duplicate(verifier)
\* if and only if some entry of the vector index that is not the query's own
\* item has score >= SSCD_SIM_THRESHOLD, and then match is the
\* highest-scoring such entry and score is its inner product with the query.
C3_VerifierDecision ==
    (Finished /\ Readable(QueryPath) /\ SieveCandidates = {})
        => LET above == {i \in OtherSlots : SlotScore(i) >= SSCD_SIM_THRESHOLD}
           IN /\ verdict # None
              /\ (TheVerdict.is_duplicate /\ TheVerdict.stage = "verifier")
                    <=> above # {}
              /\ above # {} =>
                    \E i \in above :
                        /\ \A j \in above : SlotScore(i) >= SlotScore(j)
                        /\ TheVerdict.match = Some(metadata[i])
                        /\ TheVerdict.score = Some(SlotScore(i))

\* C4: when detect ends in Duplicate(sieve), match is an entry of minimum
\* Hamming distance to the query fingerprint among the hash-table entries
\* that are within HASH_HAMMING_THRESHOLD and are not the query's own item,
\* score is that distance, and sieve_matches is the ranked list (ascending
\* distance, at most top_k candidates) that starts with it.
C4_SieveNearest ==
    (Returning /\ TheVerdict.stage = "sieve") =>
        LET ms == TheVerdict.sieve_matches
            dist(i) == HammingRef(HashOf(QueryPath), hash_db[i].hash)
        IN /\ \E i \in SieveCandidates :
                 /\ \A j \in SieveCandidates : dist(i) <= dist(j)
                 /\ TheVerdict.match = Some(hash_db[i].filename)
                 /\ TheVerdict.score = Some(dist(i))
           /\ Len(ms) = Min(call.top_k, Cardinality(SieveCandidates))
           /\ Some(ms[1].filename) = TheVerdict.match
           /\ Some(ms[1].distance) = TheVerdict.score
           /\ \A n \in 1..Len(ms) :
                 \E i \in SieveCandidates :
                    ms[n] = [filename |-> hash_db[i].filename, distance |-> dist(i)]
           /\ \A n \in 1..(Len(ms) - 1) : ms[n].distance <= ms[n + 1].distance

C4_Witness ==
    /\ Returning
    /\ TheVerdict.stage = "sieve"
    /\ Len(TheVerdict.sieve_matches) >= 2
    /\ TheVerdict.sieve_matches[1].distance < TheVerdict.sieve_matches[2].distance
    /\ hash_db[1].filename # TheVerdict.match[1]

\* C5: the hash sieve retains every inserted item: when two distinct
\* identifiers are inserted with the same fingerprint both remain stored,
\* and a sieve query within threshold of that fingerprint (excluding
\* neither, limit 2) returns both identifiers.
C5_CollidingItemsRetained ==
    [][\A S \in SUBSET FolderPaths : \A l \in Listings(S) :
          BuildHashDb(l) =>
             /\ \A i \in 1..Len(l) :
                   Readable(l[i]) =>
                      \E j \in 1..Len(hash_db') : hash_db'[j].filename = l[i]
             /\ (Len(l) = 2 /\ Readable(l[1]) /\ Readable(l[2])
                     /\ HashOf(l[1]) = HashOf(l[2]))
                   => LET r == sieve(hash_db', "Q1", 2)
                      IN {r[n].filename : n \in 1..Len(r)} = {l[1], l[2]}
      ]_vars

\* the table holds exactly A and B
TableIsAB ==
    /\ Len(hash_db) = 2
    /\ {hash_db[i].filename : i \in 1..Len(hash_db)} = {"A", "B"}
    /\ HammingRef(HashOf("A"), HashOf("B")) = 3

\* C6 as claimed: with a hash table holding exactly A and B
\* (hamming(hA,hB)=3) and threshold 5, every query q with hamming(q,hA)=2
\* whose identifier is neither A nor B gets Duplicate(sieve), match=A,
\* score=2.
C6_NearCopyOfA_Claimed ==
    (Finished /\ TableIsAB /\ QueryPath \notin {"A", "B"}
        /\ HammingRef(HashOf(QueryPath), HashOf("A")) = 2)
        => /\ verdict # None
           /\ TheVerdict.is_duplicate
           /\ TheVerdict.stage = "sieve"
           /\ TheVerdict.match = Some("A")
           /\ TheVerdict.score = Some(2)

\* C6 amended: with a hash table holding exactly A and B
\* (hamming(hA,hB)=3) and threshold 5, every query q with hamming(q,hA)=2
\* and hamming(q,hB) > 2 whose identifier names neither A's nor B's file
\* gets Duplicate(sieve), match=A, score=2; such a query with
\* hamming(q,hB)=1 gets Duplicate(sieve), match=B, score=1.
C6_NearCopyOfA ==
    (Finished /\ TableIsAB
        /\ ~SameFile(QueryPath, "A") /\ ~SameFile(QueryPath, "B")
        /\ HammingRef(HashOf(QueryPath), HashOf("A")) = 2)
        => /\ verdict # None
           /\ TheVerdict.is_duplicate
           /\ TheVerdict.stage = "sieve"
           /\ IF HammingRef(HashOf(QueryPath), HashOf("B")) > 2
              THEN TheVerdict.match = Some("A") /\ TheVerdict.score = Some(2)
              ELSE TheVerdict.match = Some("B") /\ TheVerdict.score = Some(1)

C6_Witness ==
    /\ Returning
    /\ TableIsAB
    /\ hash_db[1].filename = "B"
    /\ QueryPath \notin {"A", "B"}
    /\ HammingRef(HashOf(QueryPath), HashOf("A")) = 2
    /\ HammingRef(HashOf(QueryPath), HashOf("B")) = 5
    /\ TheVerdict.match = Some("A")

\* C7: when the sieve returns nothing and every entry of the vector index
\* that is not the query's own item scores strictly below
\* SSCD_SIM_THRESHOLD, detect returns the Unique verdict: is_duplicate
\* false, stage "unique", match null, score null, verifier_matches empty.
C7_BelowThresholdIsUnique ==
    (Finished /\ Readable(QueryPath) /\ SieveCandidates = {}
        /\ \A i \in OtherSlots : SlotScore(i) < SSCD_SIM_THRESHOLD)
        => verdict = Some(UniqueVerdict)

\* C8: with a hash table built from the single image A and a vector index
\* holding no vectors, detect called with A's own path returns Unique.
C8_SingleImageSelfQuery ==
    (Finished /\ hash_db = build_hash_db(<<"A">>) /\ index = <<>>
        /\ QueryPath = "A")
        => verdict = Some(UniqueVerdict)

----------------------------------------------------------------------------
(* src/src/indexer.py: persistence of the Indexer *)

(* the identifier list is read, the vectors read from disk are dropped *)
load_Mut(idx, meta, ifile, mfile) ==
    IF ifile.state # "ok" \/ mfile.state # "ok"
    THEN [index |-> idx, metadata |-> meta, raised |-> TRUE]
    ELSE [index |-> idx, metadata |-> mfile.content, raised |-> FALSE]

(* Indexer.load: read_index into self.index, then pickle.load into         *)
(* self.metadata; either read raises on a missing or unreadable file.      *)
load(idx, meta, ifile, mfile) ==
    IF ifile.state # "ok"
    THEN [index |-> idx, metadata |-> meta, raised |-> TRUE]
    ELSE IF mfile.state # "ok"
         THEN [index |-> ifile.content, metadata |-> meta, raised |-> TRUE]
         ELSE [index |-> ifile.content, metadata |-> mfile.content,
               raised |-> FALSE]

(* line 27: __init__ loads when both paths exist *)
LoadsOnInit(ifile, mfile) == Exists(ifile) /\ Exists(mfile)

(* save(), line 76: faiss.write_index opens index_path for writing *)
SaveOpenIndex ==
    /\ proc = "running"
    /\ pc = "idle"
    /\ StoreUntouched
    /\ index_file' = Partial
    /\ proc' = "writing_index"
    /\ last' = Op("save", FALSE)
    /\ UNCHANGED <<funnelVars, indexerVars, metadata_file, storeVars>>

(* save(), line 76: write_index has written the vectors and returns *)
SaveIndexWritten ==
    /\ proc = "writing_index"
    /\ index_file' = Written(index, metadata)
    /\ proc' = "index_written"
    /\ UNCHANGED <<funnelVars, indexerVars, metadata_file, last, storeVars>>

(* save(), line 77: open(metadata_path, 'wb') truncates the file *)
SaveOpenMetadata ==
    /\ proc = "index_written"
    /\ metadata_file' = Partial
    /\ proc' = "writing_metadata"
    /\ UNCHANGED <<funnelVars, indexerVars, index_file, last, storeVars>>

(* save(), lines 78-79: pickle.dump has written the list, save returns *)
SaveMetadataWritten ==
    /\ proc = "writing_metadata"
    /\ metadata_file' = Written(metadata, index)
    /\ proc' = "running"
    /\ UNCHANGED <<funnelVars, indexerVars, index_file, last, storeVars>>

(* the process dies: what it held in memory is gone, the files stay *)
Crash ==
    /\ proc \in {"running", "writing_index", "index_written", "writing_metadata"}
    /\ pc = "idle"
    /\ StoreUntouched
    /\ Exists(index_file) \/ Exists(metadata_file)
    /\ proc' = "down"
    /\ index' = <<>>
    /\ metadata' = <<>>
    /\ last' = Op("crash", FALSE)
    /\ UNCHANGED <<funnelVars, diskVars, storeVars>>

(* Indexer.__init__ in a new process *)
Construct ==
    /\ proc = "down"
    /\ IF LoadsOnInit(index_file, metadata_file)
       THEN LET r == load(<<>>, <<>>, index_file, metadata_file)
            IN IF r.raised
               THEN /\ proc' = "failed"
                    /\ last' = Op("init", TRUE)
                    /\ UNCHANGED indexerVars
               ELSE /\ proc' = "running"
                    /\ index' = r.index
                    /\ metadata' = r.metadata
                    /\ last' = Op("init_loaded", FALSE)
       ELSE /\ proc' = "running"
            /\ last' = Op("init_empty", FALSE)
            /\ UNCHANGED indexerVars
    /\ UNCHANGED <<funnelVars, diskVars, storeVars>>

(* Indexer.load() called on a live Indexer *)
Load ==
    /\ proc = "running"
    /\ pc = "idle"
    /\ StoreUntouched
    /\ LET r == load(index, metadata, index_file, metadata_file)
       IN /\ index' = r.index
          /\ metadata' = r.metadata
          /\ last' = Op("load", r.raised)
    /\ UNCHANGED <<funnelVars, diskVars, proc, storeVars>>

----------------------------------------------------------------------------
(* src/src/search.py: VectorStore *)

(* VectorStore.load_index *)
load_index(store, ifile, mfile) ==
    IF ~Exists(ifile) \/ ifile.state # "ok"
    THEN [store |-> store, raised |-> TRUE]
    ELSE IF mfile.state # "ok"
         THEN [store |-> [store EXCEPT !.index = Some(ifile.content)],
               raised |-> TRUE]
         ELSE [store |-> [store EXCEPT !.index = Some(ifile.content),
                                       !.metadata = mfile.content,
                                       !.loaded = TRUE],
               raised |-> FALSE]

(* build_index, lines 27-45: build the index in memory and write it to     *)
(* index_path                                                               *)
StoreBuildIndex(embeddings, meta) ==
    /\ IndexerUntouched
    /\ vs.pc = "ready"
    /\ IF Len(embeddings) = 0
       THEN /\ last' = Op("build_index", TRUE)
            /\ UNCHANGED storeVars
       ELSE /\ vs' = [vs EXCEPT !.index = Some(embeddings),
                                !.metadata = meta,
                                !.pc = "index_written"]
            /\ vs_index_file' = Written(embeddings, meta)
            /\ last' = Op("build_index", FALSE)
            /\ UNCHANGED vs_metadata_file
    /\ UNCHANGED <<funnelVars, indexerVars, diskVars, proc>>

(* build_index, lines 46-47: pickle.dump the metadata *)
StoreBuildFinish ==
    /\ vs.pc = "index_written"
    /\ vs_metadata_file' = Written(vs.metadata, vs.index[1])
    /\ vs' = [vs EXCEPT !.pc = "ready"]
    /\ UNCHANGED <<funnelVars, indexerVars, diskVars, proc, last,
                   vs_index_file>>

(* the process ends or dies and a new VectorStore is constructed *)
StoreRestart ==
    /\ IndexerUntouched
    /\ vs # NewStore
    /\ vs' = NewStore
    /\ last' = Op("restart", FALSE)
    /\ UNCHANGED <<funnelVars, indexerVars, diskVars, proc,
                   vs_index_file, vs_metadata_file>>

(* load_index(), called directly or by search() on a store not yet loaded *)
StoreLoadIndex ==
    /\ IndexerUntouched
    /\ vs.pc = "ready"
    /\ LET r == load_index(vs, vs_index_file, vs_metadata_file)
       IN /\ vs' = r.store
          /\ last' = Op("load_index", r.raised)
    /\ UNCHANGED <<funnelVars, indexerVars, diskVars, proc,
                   vs_index_file, vs_metadata_file>>

(* the paths the persistence runs index *)
SnapPaths == {"A", "B"}

NextSnapshot ==
    \/ \E ps \in SeqsUpTo(SnapPaths, MaxBatch) : \E drop \in {0, 1} :
          AddVectors(SubSeq(Embeddings(ps), 1, Len(ps) - drop), ps)
    \/ SaveOpenIndex
    \/ SaveIndexWritten
    \/ SaveOpenMetadata
    \/ SaveMetadataWritten
    \/ Crash
    \/ Construct
    \/ Load
    \/ \E ps \in SeqsUpTo(SnapPaths, MaxBatch) \cup {<<>>} :
          StoreBuildIndex(Embeddings(ps), ps)
    \/ StoreBuildFinish
    \/ StoreRestart
    \/ StoreLoadIndex

SpecSnapshot == Init /\ [][NextSnapshot]_vars

----------------------------------------------------------------------------
(* Properties of the persistence *)

\* C9: if the process crashes at any point during Indexer.save(), a later
\* Indexer construction never accepts and loads a mixed snapshot: what it
\* loads is the vectors and the identifier list of one and the same save().
C9_NoMixedSnapshotAfterCrash ==
    last.op = "init_loaded"
        => index_file.twin = metadata /\ metadata_file.twin = index

\* C10: when one of the two artifacts is missing or unreadable,
\* Indexer.load() and VectorStore.load_index() fail and leave the in-memory
\* vector index and identifier list as they were before the call.
C10_FailedLoadAdoptsNothing ==
    [][/\ (last'.op = "load" /\ last'.raised)
             => index' = index /\ metadata' = metadata
       /\ (last'.op = "load_index" /\ last'.raised)
             => vs' = vs
      ]_vars

----------------------------------------------------------------------------
(* Properties of the Indexer *)

\* C11: constructing an Indexer when exactly one of the two snapshot files
\* exists does not yield an empty index as if there were no snapshot: the
\* construction reports it (it does not return an empty Indexer normally).
C11_MissingSnapshotSurfaced ==
    last.op = "init_empty"
        => (Exists(index_file) <=> Exists(metadata_file))

\* C12: Indexer.add_vectors called with a number of vectors different from
\* the number of filenames raises and leaves the vector index and the
\* metadata list as they were: no vector and no identifier is appended.
C12_CountMismatchRejected ==
    [][\A ps \in SeqsUpTo(IndexPaths, MaxBatch) :
          AddVectors(SubSeq(Embeddings(ps), 1, Len(ps) - 1), ps)
             => /\ last' = Op("add_vectors", TRUE)
                /\ index' = index
                /\ metadata' = metadata
      ]_vars

C12_Witness ==
    /\ last = Op("add_vectors", TRUE)
    /\ index # <<>>
    /\ Len(metadata) = Len(index)

(* s is an initial segment of t *)
IsPrefix(s, t) == Len(s) <= Len(t) /\ SubSeq(t, 1, Len(s)) = s

\* C13: after any sequence of add_vectors calls (accepted or rejected),
\* saves and loads, the Indexer holds as many identifiers as vectors, every
\* slot holds the identifier that was supplied with its vector, and within
\* one process the slots already assigned stay as they are (ids are
\* sequential and never reused).
C13_SlotsAlignedAndStable ==
    [][/\ proc' # "down"
             => /\ Len(metadata') = Len(index')
                /\ \A i \in 1..Len(index') :
                      index'[i] = FileEmbedding(Resolve(metadata'[i]))
       /\ (proc # "down" /\ proc' # "down")
             => IsPrefix(index, index') /\ IsPrefix(metadata, metadata')
      ]_vars

----------------------------------------------------------------------------
(* Indexer.search called directly, as tests/test_indexer.py and            *)
(* scripts do                                                               *)

(* the query arrays: an embedding of a stored or of another image, in the  *)
(* shape either provider returns                                            *)
SearchQueries == {get_embedding(v, p) : v \in Verifiers, p \in IndexPaths \cup {"D"}}

(* k = 1 (the default), 2, and the top_k + 5 that verify asks for *)
SearchKs == {1, 2, FetchCount(TOP_K)}

(* Indexer.search(query_vector, k) *)
Search(q, k) ==
    /\ pc = "idle"
    /\ proc = "running"
    /\ StoreUntouched
    /\ \E o \in SearchOutcomes(index, metadata, q, k) :
          last' = [op |-> "search", raised |-> o.raised,
                   results |-> o.results, query |-> q, k |-> k]
    /\ UNCHANGED <<funnelVars, indexerVars, diskVars, proc, storeVars>>

NextSearch ==
    \/ \E ps \in SeqsUpTo(IndexPaths, MaxBatch) : \E drop \in {0, 1} :
          AddVectors(SubSeq(Embeddings(ps), 1, Len(ps) - drop), ps)
    \/ \E q \in SearchQueries : \E k \in SearchKs : Search(q, k)

SpecSearch == Init /\ [][NextSearch]_vars

(* a search on a query of the documented shape (1, 512) has returned *)
Searched == last.op = "search" /\ ShapeOk(last.query)
Found == last.results
QueryScore(i) ==
    index[i][1] * last.query.data[1] + index[i][2] * last.query.data[2]

(* slot i ranks before slot j: higher score, or equal score and lower id *)
RanksBefore(i, j) ==
    QueryScore(i) > QueryScore(j) \/ (QueryScore(i) = QueryScore(j) /\ i < j)

C15_EmptyIndexEmptyResult ==
    (Searched /\ index = <<>>) => ~last.raised /\ Found = <<>>

C15_Witness ==
    /\ Searched
    /\ index = <<>>
    /\ last.k = FetchCount(TOP_K)
    /\ ~last.raised
    /\ Found = <<>>

(* both files are complete and were written by one and the same save():    *)
(* each holds what the saving Indexer held when the other was written      *)
SnapshotOfOneSave ==
    /\ index_file.state = "ok"
    /\ metadata_file.state = "ok"
    /\ index_file.twin = metadata_file.content
    /\ metadata_file.twin = index_file.content

\* C16: save/load round trip: after add_vectors and a completed save(), a
\* new Indexer constructed on the same index_path and metadata_path holds
\* the vectors and the slot-aligned identifier list the saving Indexer
\* held, so every search(query, k) on it has the same results as on the
\* Indexer that saved.
C16_SaveLoadRoundTrip ==
    (last.op = "init_loaded" /\ SnapshotOfOneSave)
        => /\ index = metadata_file.twin
           /\ metadata = index_file.twin
           /\ \A q \in SearchQueries : \A k \in SearchKs :
                 SearchOutcomes(index, metadata, q, k)
                    = SearchOutcomes(metadata_file.twin, index_file.twin, q, k)

C16_Witness ==
    /\ last.op = "init_loaded"
    /\ SnapshotOfOneSave
    /\ Len(index) = 2
    /\ metadata = <<"B", "A">>
    /\ index = <<FileEmbedding("B"), FileEmbedding("A")>>

(* the slots holding the query vector itself *)
SlotsOfQuery == {i \in 1..Len(index) : index[i] = last.query.data}

(* the inner product of the query with itself *)
SelfProduct ==
    last.query.data[1] * last.query.data[1]
        + last.query.data[2] * last.query.data[2]

\* C17: for normalized stored vectors and every stored vector v,
\* Indexer.search(v, k=1) returns one result: a slot holding v, with the
\* identifier that was stored with it and the maximal score, the inner
\* product of v with itself.
C17_StoredVectorFindsItself ==
    (Searched /\ last.k = 1 /\ SlotsOfQuery # {})
        => /\ ~last.raised
           /\ Len(Found) = 1
           /\ Found[1].id + 1 \in SlotsOfQuery
           /\ Found[1].filename = metadata[Found[1].id + 1]
           /\ Found[1].score = SelfProduct
           /\ \A j \in 1..Len(index) : QueryScore(j) <= Found[1].score

C17_Witness ==
    /\ Searched
    /\ last.k = 1
    /\ Len(index) = 2
    /\ index[1] # index[2]
    /\ SlotsOfQuery = {2}
    /\ Found = <<[filename |-> "B", score |-> 100, id |-> 1]>>

----------------------------------------------------------------------------
(* Parallel detect calls on one DuplicateDetector.  Each call has its own  *)
(* locals (image_path, top_k, its position, its result); hash_db, the      *)
(* Indexer and the verifier are the detector's, shared by all calls.  In   *)
(* this specification pc, call and verdict map each call to its locals.    *)

MaxCalls == 2
Calls == 1..MaxCalls

(* the uploads the parallel requests carry *)
ParPaths == {"A", "Q1", "Q3", "X"}

(* init_detector has run: the hash table and the vector index are built *)
InitPar ==
    /\ \E l \in Listings({"A", "B"}) : hash_db = build_hash_db(l)
    /\ \E ps \in [1..2 -> {"A", "B"}] :
          index = Embeddings(ps) /\ metadata = ps
    /\ verifier \in Verifiers
    /\ pc = [c \in Calls |-> "idle"]
    /\ call = [c \in Calls |-> NoCall]
    /\ verdict = [c \in Calls |-> None]
    /\ path_taken = <<>>
    /\ invoked = {}
    /\ index_file = Absent
    /\ metadata_file = Absent
    /\ proc = "running"
    /\ last = NoOp
    /\ vs = NewStore
    /\ vs_index_file = Absent
    /\ vs_metadata_file = Absent

ParFrame ==
    UNCHANGED <<hash_db, verifier, path_taken, invoked, indexerVars,
                diskVars, proc, last, storeVars>>

(* detect_image, line 54: detector.detect(str(temp_path), top_k=TOP_K) *)
ParStart(c, image_path) ==
    /\ pc[c] = "idle"
    /\ pc' = [pc EXCEPT ![c] = "Start"]
    /\ call' = [call EXCEPT ![c] = [image_path |-> image_path, top_k |-> TOP_K]]
    /\ verdict' = [verdict EXCEPT ![c] = None]
    /\ ParFrame

(* pipeline.py line 96 *)
ParOpen(c) ==
    /\ pc[c] = "Start"
    /\ pc' = [pc EXCEPT ![c] = IF Readable(call[c].image_path)
                               THEN "SieveCheck" ELSE "raised"]
    /\ UNCHANGED <<call, verdict>>
    /\ ParFrame

(* the result of one call is written to every call's result *)
ParSieve_Mut(c) ==
    /\ pc[c] = "SieveCheck"
    /\ LET sieve_matches == sieve(hash_db, call[c].image_path, call[c].top_k)
       IN IF SieveWins(sieve_matches)
          THEN /\ verdict' = [d \in Calls |-> Some(SieveVerdict(sieve_matches))]
               /\ pc' = [pc EXCEPT ![c] = "done"]
          ELSE /\ pc' = [pc EXCEPT ![c] = "VerifierCheck"]
               /\ UNCHANGED verdict
    /\ UNCHANGED call
    /\ ParFrame

(* pipeline.py lines 98-108 *)
ParSieve(c) ==
    /\ pc[c] = "SieveCheck"
    /\ LET sieve_matches == sieve(hash_db, call[c].image_path, call[c].top_k)
       IN IF SieveWins(sieve_matches)
          THEN /\ verdict' = [verdict EXCEPT ![c] = Some(SieveVerdict(sieve_matches))]
               /\ pc' = [pc EXCEPT ![c] = "done"]
          ELSE /\ pc' = [pc EXCEPT ![c] = "VerifierCheck"]
               /\ UNCHANGED verdict
    /\ UNCHANGED call
    /\ ParFrame

(* pipeline.py lines 110-124 *)
ParVerify(c) ==
    /\ pc[c] = "VerifierCheck"
    /\ \E o \in VerifyOutcomes(verifier, index, metadata,
                               call[c].image_path, call[c].top_k) :
          IF o.raised
          THEN /\ pc' = [pc EXCEPT ![c] = "raised"]
               /\ UNCHANGED verdict
          ELSE /\ verdict' = [verdict EXCEPT
                                ![c] = Some(VerifierVerdict(<<>>, o.results))]
               /\ pc' = [pc EXCEPT ![c] = "done"]
    /\ UNCHANGED call
    /\ ParFrame

(* the request is answered; the worker takes the next one *)
ParReturn(c) ==
    /\ pc[c] \in {"done", "raised"}
    /\ pc' = [pc EXCEPT ![c] = "idle"]
    /\ call' = [call EXCEPT ![c] = NoCall]
    /\ verdict' = [verdict EXCEPT ![c] = None]
    /\ ParFrame

NextPar ==
    \/ \E c \in Calls : \E p \in ParPaths : ParStart(c, p)
    \/ \E c \in Calls : ParOpen(c)
    \/ \E c \in Calls : ParSieve(c)
    \/ \E c \in Calls : ParVerify(c)
    \/ \E c \in Calls : ParReturn(c)

SpecPar == InitPar /\ [][NextPar]_vars

(* what detect(image_path, top_k) run alone on the detector returns *)
AloneVerdicts(image_path, top_k) ==
    IF ~Readable(image_path) THEN {}
    ELSE LET sm == sieve(hash_db, image_path, top_k)
         IN IF sm # <<>> THEN {SieveVerdict(sm)}
            ELSE {VerifierVerdict(<<>>, o.results) :
                    o \in {x \in VerifyOutcomes(verifier, index, metadata,
                                               image_path, top_k) : ~x.raised}}

(* detect(image_path, top_k) run alone can raise *)
AloneRaises(image_path, top_k) ==
    \/ ~Readable(image_path)
    \/ /\ sieve(hash_db, image_path, top_k) = <<>>
       /\ \E o \in VerifyOutcomes(verifier, index, metadata, image_path, top_k) :
             o.raised

\* C18: detect calls running in parallel on one DuplicateDetector over a
\* built index, with no insertion in progress, each end as the same call
\* run alone ends (the same verdict, or the same error), and no step of
\* any of them changes the hash table, the vector index or its identifier
\* list.
C18_ParallelDetectIsolated ==
    [][/\ \A c \in Calls :
             /\ pc'[c] = "done"
                   => /\ verdict'[c] # None
                      /\ verdict'[c][1] \in AloneVerdicts(call'[c].image_path,
                                                          call'[c].top_k)
             /\ pc'[c] = "raised"
                   => AloneRaises(call'[c].image_path, call'[c].top_k)
             /\ pc'[c] \in {"Start", "SieveCheck", "VerifierCheck"}
                   => verdict'[c] = None
       /\ hash_db' = hash_db
       /\ index' = index
       /\ metadata' = metadata
      ]_vars

(* two calls are in flight at once, in different stages, one has finished  *)
(* in the verifier stage                                                    *)
C18_Witness ==
    /\ pc[1] = "done"
    /\ verdict[1][1].stage = "verifier"
    /\ pc[2] = "SieveCheck"
    /\ call[2].image_path = "Q1"

----------------------------------------------------------------------------
(* Frame of a query *)

(* a step of a detect call: from its start to its return or its raise *)
DetectStep == pc # "idle" \/ pc' # "idle"

\* C19: a detect call, whether it returns a verdict or raises (unreadable
\* image, search error), leaves the hash table and the vector index with
\* its identifier list unchanged, and every query, whatever calls came
\* before it, ends as the tables alone determine: with the verdict it
\* would have got had the earlier calls not been made.
C19_DetectLeavesIndexesUnchanged ==
    [][DetectStep =>
          /\ hash_db' = hash_db
          /\ index' = index
          /\ metadata' = metadata
          /\ verifier' = verifier
          /\ pc = "done"
                => /\ verdict # None
                   /\ verdict[1] \in AloneVerdicts(call.image_path, call.top_k)
          /\ pc = "raised" => AloneRaises(call.image_path, call.top_k)
      ]_vars

(* a call has raised in the verifier stage and another has returned a      *)
(* verdict before it, over a filled hash table and vector index            *)
C19_Witness ==
    /\ pc = "raised"
    /\ "search" \in invoked
    /\ hash_db # <<>>
    /\ index # <<>>
    /\ Len(metadata) = Len(index)

----------------------------------------------------------------------------
(* Bulk construction *)

(* src/src/build_index.py, lines 29-42: the embeddings and paths collected *)
(* from the listing of IMAGE_DIR, an item whose embedding fails skipped    *)
RECURSIVE ScanEmbeddings(_, _)
ScanEmbeddings(listing, i) ==
    IF i > Len(listing) THEN [vectors |-> <<>>, filenames |-> <<>>]
    ELSE LET rest == ScanEmbeddings(listing, i + 1)
         IN IF Readable(listing[i])
            THEN [vectors |-> <<FileEmbedding(Resolve(listing[i]))>> \o rest.vectors,
                  filenames |-> <<listing[i]>> \o rest.filenames]
            ELSE rest

\* C20: during bulk construction (build_hash_db and build_index over the
\* same folder) an item that fails to decode, hash or embed is skipped and
\* the build goes on, and every item of the collection that can be
\* processed is present in the resulting hash table and in the batch the
\* vector index is built from, however many other items fail and wherever
\* they fall in the scan.
C20_BuildKeepsEveryGoodItem ==
    [][\A S \in SUBSET FolderPaths : \A l \in Listings(S) :
          BuildHashDb(l) =>
             \A i \in 1..Len(l) :
                Readable(l[i]) =>
                   /\ \E j \in 1..Len(hash_db') :
                         /\ hash_db'[j].filename = l[i]
                         /\ hash_db'[j].hash = HashOf(l[i])
                   /\ LET batch == ScanEmbeddings(l, 1)
                      IN \E j \in 1..Len(batch.filenames) :
                            /\ batch.filenames[j] = l[i]
                            /\ batch.vectors[j] = FileEmbedding(Resolve(l[i]))
      ]_vars

----------------------------------------------------------------------------
(* sieves.hamming_distance applied to pairs of fingerprints *)

(* 64-bit fingerprints as compute_dhash returns them: 16 hex digits.  The  *)
(* last digit takes every value, and one fingerprint has every bit set.    *)
Fingerprints ==
    {Hex(0, lo) : lo \in 0..15} \cup {[i \in 1..HexLen |-> 15]}

(* hamming_distance(hash1, hash2) *)
Hamming(hash1, hash2) ==
    /\ last' = [op |-> "hamming_distance", raised |-> FALSE,
                hash1 |-> hash1, hash2 |-> hash2,
                result |-> hamming_distance(hash1, hash2)]
    /\ UNCHANGED <<funnelVars, indexerVars, diskVars, proc, storeVars>>

NextHamming == \E hash1, hash2 \in Fingerprints : Hamming(hash1, hash2)

SpecHamming == Init /\ [][NextHamming]_vars

\* C21: for all same-width fingerprints a and b, hamming_distance(a, b)
\* equals hamming_distance(b, a), lies between 0 and the width (64 bits),
\* and is 0 when a = b.
C21_HammingSymmetricBounded ==
    last.op = "hamming_distance" =>
        /\ last.result = hamming_distance(last.hash2, last.hash1)
        /\ 0 <= last.result
        /\ last.result <= hash_size * hash_size
        /\ last.hash1 = last.hash2 => last.result = 0

C21_Witness ==
    /\ last.op = "hamming_distance"
    /\ last.hash1 # last.hash2
    /\ last.result = hash_size * hash_size

----------------------------------------------------------------------------
(* Properties of the verdict *)

(* the two ways through the funnel *)
FunnelPaths ==
    {<<"Start", "SieveCheck", "Duplicate(sieve)">>,
     <<"Start", "SieveCheck", "VerifierCheck", "Duplicate(verifier)">>,
     <<"Start", "SieveCheck", "VerifierCheck", "Unique">>}

\* C22: every detect call on a readable image ends in exactly one of the
\* terminal states Duplicate(sieve), Duplicate(verifier), Unique, reached
\* only along Start -> SieveCheck -> Duplicate(sieve) or Start ->
\* SieveCheck -> VerifierCheck -> {Duplicate(verifier) | Unique}; a call
\* under way is on a prefix of one of these paths, and no call on a
\* readable image ends in any other way.
C22_ThreeTerminalStates ==
    (pc # "idle" /\ Readable(QueryPath)) =>
        /\ \E f \in FunnelPaths : IsPrefix(path_taken, f)
        /\ Finished => /\ pc = "done"
                       /\ path_taken \in FunnelPaths
                       /\ verdict # None

\* C23: every verdict detect returns is internally consistent:
\* is_duplicate is true iff stage is "sieve" or "verifier" iff match is
\* non-null iff score is non-null; stage "sieve" implies match and score
\* are those of sieve_matches[0] (a Hamming distance) and verifier_matches
\* is empty; stage "verifier" implies match and score are those of
\* verifier_matches[0] (a similarity >= threshold) and sieve_matches is
\* empty; stage "unique" implies both lists are empty.
C23_VerdictConsistent ==
    Returning =>
        LET v == TheVerdict
        IN /\ v.stage \in {"sieve", "verifier", "unique"}
           /\ v.is_duplicate <=> v.stage \in {"sieve", "verifier"}
           /\ v.is_duplicate <=> v.match # None
           /\ v.is_duplicate <=> v.score # None
           /\ v.stage = "sieve" =>
                 /\ v.sieve_matches # <<>>
                 /\ v.match = Some(v.sieve_matches[1].filename)
                 /\ v.score = Some(v.sieve_matches[1].distance)
                 /\ v.score[1] \in 0..(hash_size * hash_size)
                 /\ v.verifier_matches = <<>>
           /\ v.stage = "verifier" =>
                 /\ v.verifier_matches # <<>>
                 /\ v.match = Some(v.verifier_matches[1].filename)
                 /\ v.score = Some(v.verifier_matches[1].score)
                 /\ v.score[1] >= SSCD_SIM_THRESHOLD
                 /\ v.sieve_matches = <<>>
           /\ v.stage = "unique" =>
                 v.sieve_matches = <<>> /\ v.verifier_matches = <<>>

(* a unique verdict although the index holds a neighbour that is not the   *)
(* query's own item: it scored below the threshold                          *)
C23_Witness ==
    /\ Returning
    /\ TheVerdict.stage = "unique"
    /\ OtherSlots # {}

(* the position in the hash table of the entry a sieve match names *)
TablePos(m) == CHOOSE i \in 1..Len(hash_db) : hash_db[i].filename = m.filename

(* table entry i ranks before entry j for the query: nearer, or as near    *)
(* and earlier in the table                                                 *)
NearerOrEarlier(i, j) ==
    LET dist(n) == HammingRef(HashOf(QueryPath), hash_db[n].hash)
    IN dist(i) < dist(j) \/ (dist(i) = dist(j) /\ i < j)

\* C24: DuplicateDetector.sieve returns exactly the non-excluded
\* hash-table entries with Hamming distance <= HASH_HAMMING_THRESHOLD
\* (inclusive), by ascending distance with equal distances in table
\* (insertion) order, truncated to the first max_matches; when no such
\* entry exists it returns the empty list and detect goes on to the
\* verifier.
C24_SieveExactStableTruncated ==
    /\ (Returning /\ TheVerdict.stage = "sieve") =>
          LET ms == TheVerdict.sieve_matches
          IN /\ Len(ms) = Min(call.top_k, Cardinality(SieveCandidates))
             /\ \A n \in 1..Len(ms) :
                   /\ \E i \in SieveCandidates :
                         hash_db[i].filename = ms[n].filename
                   /\ ms[n].distance
                         = HammingRef(HashOf(QueryPath), hash_db[TablePos(ms[n])].hash)
             /\ \A n \in 1..(Len(ms) - 1) :
                   NearerOrEarlier(TablePos(ms[n]), TablePos(ms[n + 1]))
             /\ \A j \in SieveCandidates :
                   (\A n \in 1..Len(ms) : TablePos(ms[n]) # j)
                      => \A n \in 1..Len(ms) : NearerOrEarlier(TablePos(ms[n]), j)
    /\ (pc = "VerifierCheck" /\ Readable(QueryPath)) => SieveCandidates = {}
    /\ (Returning /\ TheVerdict.stage # "sieve") => SieveCandidates = {}

(* three matches, the last two equally near and in table order *)
C24_Witness ==
    /\ Returning
    /\ TheVerdict.stage = "sieve"
    /\ Len(TheVerdict.sieve_matches) = 3
    /\ TheVerdict.sieve_matches[2].distance = TheVerdict.sieve_matches[3].distance
    /\ TheVerdict.sieve_matches[2].filename = "D"
    /\ TheVerdict.sieve_matches[3].filename = "A"

----------------------------------------------------------------------------
(* src/src/build_index.py run as a script, any number of times, and the    *)
(* verifier stage of a detector started afterwards                         *)

(* the smallest top_k verify can be asked for *)
MinTopK == 1

(* the index sizes the runs go up to: one more than verify fetches *)
MaxStored == FetchCount(MinTopK) + 1

(* what os.listdir(IMAGE_DIR) returns at the time of a run: the folder     *)
(* holds A, or A and B, or only a file that cannot be decoded              *)
BuildListings == {<<"A">>, <<"A", "B">>, <<"X">>}

(* Indexer(): empty unless both snapshot files exist, then loaded *)
NewIndexer(ifile, mfile) ==
    IF LoadsOnInit(ifile, mfile)
    THEN load(<<>>, <<>>, ifile, mfile)
    ELSE [index |-> <<>>, metadata |-> <<>>, raised |-> FALSE]

(* build_index(): construct the Indexer, embed every file of the listing,  *)
(* return without saving when nothing was embedded, else add_vectors and   *)
(* save                                                                     *)
BuildIndex(listing) ==
    /\ pc = "idle"
    /\ proc = "running"
    /\ StoreUntouched
    /\ LET indexer == NewIndexer(index_file, metadata_file)
           batch == ScanEmbeddings(listing, 1)
       IN /\ Len(indexer.index) + Len(batch.vectors) <= MaxStored
          /\ Len(indexer.metadata) + Len(batch.filenames) <= MaxStored
          /\ IF indexer.raised
             THEN /\ last' = [op |-> "build_index", raised |-> TRUE,
                              listing |-> listing, saved |-> FALSE]
                  /\ UNCHANGED <<indexerVars, diskVars>>
             ELSE IF Len(batch.vectors) = 0
                  THEN /\ index' = indexer.index
                       /\ metadata' = indexer.metadata
                       /\ last' = [op |-> "build_index", raised |-> FALSE,
                                   listing |-> listing, saved |-> FALSE]
                       /\ UNCHANGED diskVars
                  ELSE /\ index' = indexer.index \o batch.vectors
                       /\ metadata' = indexer.metadata \o batch.filenames
                       /\ index_file' = Written(index', metadata')
                       /\ metadata_file' = Written(metadata', index')
                       /\ last' = [op |-> "build_index", raised |-> FALSE,
                                   listing |-> listing, saved |-> TRUE]
    /\ UNCHANGED <<funnelVars, proc, storeVars>>

(* DuplicateDetector(...).verify(image_path, top_k): the detector's        *)
(* Indexer() is constructed on the snapshot the builds left                *)
Verify(image_path, top_k) ==
    /\ pc = "idle"
    /\ proc = "running"
    /\ StoreUntouched
    /\ LET indexer == NewIndexer(index_file, metadata_file)
       IN /\ ~indexer.raised
          /\ index' = indexer.index
          /\ metadata' = indexer.metadata
          /\ \E o \in VerifyOutcomes(verifier, indexer.index, indexer.metadata,
                                     image_path, top_k) :
                last' = [op |-> "verify", raised |-> o.raised,
                         results |-> o.results,
                         image_path |-> image_path, top_k |-> top_k]
    /\ UNCHANGED <<funnelVars, diskVars, proc, storeVars>>

(* the images verify is called with: an indexed one and an upload *)
VerifyPaths == {"A", "Q1"}

NextBuild ==
    \/ \E listing \in BuildListings : BuildIndex(listing)
    \/ \E p \in VerifyPaths : Verify(p, MinTopK)

SpecBuild == Init /\ [][NextBuild]_vars

(* verify has been called with a query of the shape Indexer.search needs *)
Verified ==
    last.op = "verify" /\ ShapeOk(get_embedding(verifier, last.image_path))

(* the slots that are not the query's own item, and their scores *)
ForeignSlots == {i \in 1..Len(metadata) : ~SameFile(metadata[i], last.image_path)}
ForeignScore(i) ==
    index[i][1] * FileEmbedding(Resolve(last.image_path))[1]
        + index[i][2] * FileEmbedding(Resolve(last.image_path))[2]

\* C25: for every vector index and query, verify(image_path, top_k)
\* returns min(top_k, M) results, M being the number of index entries that
\* are not the query's own item, and they are the highest-scoring such
\* entries in descending order, however many index entries resolve to the
\* query's path.
C25_VerifyNeverUnderfills ==
    Verified =>
        /\ ~last.raised
        /\ Len(last.results) = Min(last.top_k, Cardinality(ForeignSlots))
        /\ \A n \in 1..Len(last.results) :
              /\ last.results[n].id + 1 \in ForeignSlots
              /\ last.results[n].score = ForeignScore(last.results[n].id + 1)
              /\ \A j \in ForeignSlots :
                    (\A m \in 1..n : last.results[m].id + 1 # j)
                       => ForeignScore(j) <= last.results[n].score
        /\ \A n \in 1..(Len(last.results) - 1) :
              last.results[n].score >= last.results[n + 1].score

----------------------------------------------------------------------------
(* add_vectors in one thread, search in another, on one Indexer.  In this  *)
(* specification proc is the position of the adding thread and call holds  *)
(* the arguments of the add_vectors call in flight.                        *)

(* add_vectors, lines 37-42: the counts match and index.add has returned *)
ConcAddVectors(vectors, filenames) ==
    /\ proc = "running"
    /\ Len(vectors) = Len(filenames)
    /\ Len(index) + Len(vectors) <= MaxIndex
    /\ index' = index \o vectors
    /\ call' = [vectors |-> vectors, filenames |-> filenames]
    /\ proc' = "adding"
    /\ last' = Op("add_vectors", FALSE)
    /\ UNCHANGED <<hash_db, verifier, pc, verdict, path_taken, invoked>>
    /\ UNCHANGED <<metadata, diskVars, storeVars>>

(* add_vectors, line 45: self.metadata.extend(filenames) *)
ConcExtendMetadata ==
    /\ proc = "adding"
    /\ metadata' = metadata \o call.filenames
    /\ call' = NoCall
    /\ proc' = "running"
    /\ UNCHANGED <<hash_db, verifier, pc, verdict, path_taken, invoked>>
    /\ UNCHANGED <<index, diskVars, last, storeVars>>

(* search in the other thread, at any point of add_vectors *)
ConcSearch(q, k) ==
    /\ \E o \in SearchOutcomes(index, metadata, q, k) :
          last' = [op |-> "search", raised |-> o.raised,
                   results |-> o.results, query |-> q, k |-> k]
    /\ UNCHANGED <<funnelVars, indexerVars, diskVars, proc, storeVars>>

NextConc ==
    \/ \E ps \in SeqsUpTo(IndexPaths, MaxBatch) :
          ConcAddVectors(Embeddings(ps), ps)
    \/ ConcExtendMetadata
    \/ \E q \in SearchQueries : \E k \in SearchKs : ConcSearch(q, k)

SpecConc == Init /\ [][NextConc]_vars

\* C26: when add_vectors runs concurrently with search on the same
\* Indexer, no search observes a vector slot that has no identifier yet:
\* under every interleaving each search (on a query of the documented
\* shape) completes without error and each result carries the identifier
\* supplied for its slot.
C26_SearchDuringAddSeesIdentifiers ==
    Searched =>
        /\ ~last.raised
        /\ \A n \in 1..Len(Found) :
              /\ Found[n].id + 1 \in 1..Len(index)
              /\ index[Found[n].id + 1] = FileEmbedding(Resolve(Found[n].filename))

----------------------------------------------------------------------------
(* main.py: the module-level HASH_DB and funnel.  In this specification    *)
(* hash_db is the global HASH_DB, verifier and index/metadata are the      *)
(* module's verifier and indexer.                                          *)

(* the file names main.build_hash_db finds, and the image each file holds  *)
(* when it is scanned: a file can be replaced between two scans            *)
MainNames == {"A", "B"}
MainImages == {"A", "B", "D", "X"}
MainFolders ==
    UNION {{[i \in 1..Len(l) |-> [name |-> l[i], image |-> c[l[i]]]]
              : l \in Listings(S), c \in [S -> MainImages]}
           : S \in SUBSET MainNames}

(* main.build_hash_db, lines 19-27: HASH_DB[dhash] = img_path for every    *)
(* file that opens, into the dict the earlier calls left                   *)
RECURSIVE MainScan(_, _, _)
MainScan(db, folder, i) ==
    IF i > Len(folder) THEN db
    ELSE MainScan(IF folder[i].image # "X"
                  THEN DictSet(db, FileHash(folder[i].image), folder[i].name)
                  ELSE db,
                  folder, i + 1)

MainBuildHashDb(folder) ==
    /\ pc = "idle"
    /\ proc = "running"
    /\ StoreUntouched
    /\ hash_db' = MainScan(hash_db, folder, 1)
    /\ last' = Op("build_hash_db", FALSE)
    /\ UNCHANGED <<verifier, pc, call, verdict, path_taken, invoked>>
    /\ UNCHANGED <<indexerVars, diskVars, proc, storeVars>>


(* an exclusive threshold *)
MainWithin_Mut(dist) == dist < HASH_HAMMING_THRESHOLD

(* main.py line 42 *)
MainWithin(dist) == dist <= HASH_HAMMING_THRESHOLD

(* check_sieve, lines 39-45: the first entry of HASH_DB, in dict order,    *)
(* within the threshold; position 0 when there is none                     *)
RECURSIVE check_sieve(_, _, _)
check_sieve(db, q_hash, i) ==
    IF i > Len(db) THEN 0
    ELSE IF MainWithin(hamming_distance(q_hash, db[i].hash)) THEN i
         ELSE check_sieve(db, q_hash, i + 1)

MainRaised == [raised |-> TRUE, status |-> "", match |-> None, score |-> None]
MainReturned(status, match, score) ==
    [raised |-> FALSE, status |-> status, match |-> match, score |-> score]

(* detect_duplicate, lines 72-98, with check_verifier, lines 55-65: every  *)
(* outcome of one call                                                      *)
detect_duplicate(db, idx, meta, v, image_path) ==
    IF ~Readable(image_path) THEN {MainRaised}
    ELSE LET hit == check_sieve(db, compute_dhash(image_path), 1)
         IN IF hit # 0
            THEN {MainReturned("Duplicate (Stage 1 - Sieve)",
                               Some(db[hit].filename),
                               Some(hamming_distance(compute_dhash(image_path),
                                                     db[hit].hash)))}
            ELSE {IF o.raised THEN MainRaised
                  ELSE IF o.results # <<>>
                          /\ o.results[1].score >= SSCD_SIM_THRESHOLD
                       THEN MainReturned("Duplicate (Stage 2 - Verifier)",
                                         Some(o.results[1].filename),
                                         Some(o.results[1].score))
                       ELSE MainReturned("Unique", None, None)
                  : o \in SearchOutcomes(idx, meta,
                                         get_embedding(v, image_path), 1)}

MainDetect(image_path) ==
    /\ pc = "idle"
    /\ proc = "running"
    /\ StoreUntouched
    /\ \E o \in detect_duplicate(hash_db, index, metadata, verifier, image_path) :
          last' = [op |-> "detect_duplicate", raised |-> o.raised,
                   status |-> o.status, match |-> o.match, score |-> o.score,
                   image_path |-> image_path]
    /\ UNCHANGED <<funnelVars, indexerVars, diskVars, proc, storeVars>>

(* the images detect_duplicate is called with *)
MainQueryPaths == {"A", "Q1", "Q2", "Q3", "X"}

NextMain ==
    \/ \E folder \in MainFolders : MainBuildHashDb(folder)
    \/ \E ps \in SeqsUpTo(SnapPaths, MaxBatch) : \E drop \in {0, 1} :
          AddVectors(SubSeq(Embeddings(ps), 1, Len(ps) - drop), ps)
    \/ \E p \in MainQueryPaths : MainDetect(p)

SpecMain == Init /\ [][NextMain]_vars

\* C27: after any sequence of insertions into the hash table
\* (hash_db[fingerprint] = identifier, by repeated calls of
\* main.build_hash_db on the accumulating HASH_DB), each identifier is
\* associated with at most one fingerprint: inserting an identifier again
\* with a new fingerprint replaces its earlier entry.
C27_OneFingerprintPerIdentifier ==
    \A i, j \in 1..Len(hash_db) :
        hash_db[i].filename = hash_db[j].filename => i = j

----------------------------------------------------------------------------
(* Properties of the two entry points *)

\* C28: the query vector that DuplicateDetector.verify obtains from
\* SSCDVerifier.get_embedding and hands to Indexer.search has the shape
\* Indexer.search requires (one row of 512 components), so that the
\* verifier stage completes without a shape error whenever the sieve finds
\* nothing.
C28_EmbeddingShapeAccepted ==
    (verifier = "SSCDVerifier" /\ "get_embedding" \in invoked)
        => /\ get_embedding(verifier, QueryPath).shape = <<1, dimension>>
           /\ pc = "done"

\* C29: building the vector index is idempotent over an unchanged image
\* collection: after build_index() completes, each image path of IMAGE_DIR
\* that can be embedded appears exactly once in the saved index and
\* metadata, whether or not a snapshot of an earlier build existed when the
\* build started.
C29_BuildIndexIdempotent ==
    (last.op = "build_index" /\ ~last.raised) =>
        \A i \in 1..Len(last.listing) :
            Readable(last.listing[i]) =>
                /\ metadata_file.state = "ok"
                /\ index_file.state = "ok"
                /\ Len(index_file.content) = Len(metadata_file.content)
                /\ Cardinality({j \in 1..Len(metadata_file.content) :
                        /\ metadata_file.content[j] = last.listing[i]
                        /\ index_file.content[j]
                              = FileEmbedding(Resolve(last.listing[i]))}) = 1

(* the status main.detect_duplicate gives to a stage of detect *)
StatusOf(stage) ==
    CASE stage = "sieve" -> "Duplicate (Stage 1 - Sieve)"
      [] stage = "verifier" -> "Duplicate (Stage 2 - Verifier)"
      [] OTHER -> "Unique"

(* the path is in neither the hash table nor the vector index *)
NotIndexed(p) ==
    /\ \A i \in 1..Len(hash_db) : ~SameFile(hash_db[i].filename, p)
    /\ \A i \in 1..Len(metadata) : ~SameFile(metadata[i], p)

\* C30: for every hash table, vector index and query whose own path is not
\* indexed, the two entry points agree on the decision and on the deciding
\* stage: main.detect_duplicate reports "Duplicate (Stage 1 - Sieve)",
\* "Duplicate (Stage 2 - Verifier)" or "Unique" exactly when
\* DuplicateDetector.detect over the same data reports stage "sieve",
\* "verifier" or "unique", and it fails exactly when detect fails.
C30_EntryPointsAgree ==
    (last.op = "detect_duplicate" /\ NotIndexed(last.image_path)) =>
        LET p == last.image_path
            mains == detect_duplicate(hash_db, index, metadata, verifier, p)
            verdicts == AloneVerdicts(p, TOP_K)
        IN /\ {o.status : o \in {x \in mains : ~x.raised}}
                 = {StatusOf(v.stage) : v \in verdicts}
           /\ (\E o \in mains : o.raised) <=> AloneRaises(p, TOP_K)
           /\ ~last.raised => \E v \in verdicts : last.status = StatusOf(v.stage)
           /\ last.raised => AloneRaises(p, TOP_K)

(* the verifier stage decided, over a non-empty hash table *)
C30_Witness ==
    /\ last.op = "detect_duplicate"
    /\ NotIndexed(last.image_path)
    /\ last.status = "Duplicate (Stage 2 - Verifier)"
    /\ hash_db # <<>>
    /\ Len(index) = 2

====
